---- MODULE Spec2Model ----
(***************************************************************************)
(* The request-forwarding and caching core of the Clash of Clans API      *)
(* proxy: cocFetch with its cache (NodeCache or Redis), the per-attempt    *)
(* timeout of fetchWithTimeout and the retry/backoff loop.                 *)
(*                                                                         *)
(* Two variants of cocFetch are in the repository:                         *)
(*   "server"  - src/server.js: configurable attempts, per-attempt         *)
(*               timeout, capped exponential backoff, NodeCache or Redis;  *)
(*   "part000" - src/unnamed/part_000: two attempts, no timeout, linear    *)
(*               backoff, NodeCache only.                                  *)
(* The variant, the cache backend and FETCH_RETRIES are fixed at start-up  *)
(* and are chosen in Init.                                                 *)
(***************************************************************************)
EXTENDS Integers, Sequences, FiniteSets, TLC

\* ---------------------------------------------------------------- bounds
NReq == 2            \* requests handled in one behaviour
MaxTime == 2         \* the clock runs from 0 to MaxTime (seconds)
MaxRetries == 2      \* FETCH_RETRIES ranges over 1..MaxRetries
MaxTagLen == 4       \* longest raw tag given to encodeTag
MaxSuffixLen == 1    \* characters of a /raw path after its first segment
MaxBackoffAttempts == 5  \* FETCH_RETRIES ranges over 1..MaxBackoffAttempts in PureSpec
NCalls == 2          \* cocFetch calls the route handlers build in PureSpec

\* ------------------------------------------------------ program constants
CACHE_TTL == 1                 \* CACHE_TTL_SECONDS, scaled to the clock
DefaultAttempts == 2           \* the retry count of part_000, the default of server.js
BaseTimeout == 6000            \* FETCH_TIMEOUT_MS default
BackoffCap == 2000             \* ceiling of the server.js backoff
BackoffUnit == 200             \* base of both backoff formulas

Requests == 1..NReq
Variants == {"server", "part000"}
Methods == {"GET", "POST"}
NoKey == "null"                          \* cacheKey = null
Keys == {"clan:%23A", "leagues"}         \* cache keys the routes build
Statuses == {200, 404}            \* upstream HTTP statuses
Texts == {"", "{\"tag\":1}", "<html>"}   \* upstream body texts
TransportErrors == {"ECONNRESET", "ENOTFOUND"}
RedisErrors == {"Connection is closed."}
BodyErrors == {"terminated"}
AbortMessage == "This operation was aborted"
NoResponseMessage == "No response from fetch attempts"

VARIABLES
    variant,      \* which cocFetch is running
    redis,        \* TRUE iff REDIS_URL is set (server.js only)
    fetchRetries, \* FETCH_RETRIES (server.js)
    now,          \* wall clock, seconds
    cache,        \* key -> entry or NoEntry (nodeCache / the Redis keyspace)
    pc,           \* per request: where cocFetch is suspended
    method,       \* per request: options.method
    cacheKey,     \* per request: options.cacheKey
    attempt,      \* per request: the loop variable of the retry loop
    lastErr,      \* per request: lastErr (message) or NoErr
    response,     \* per request: response (status, body text) or NoResp
    timer,        \* per request: the pending setTimeout, if any
    result,       \* per request: what was sent with res.status().json()
    sends,        \* per request: number of res.status().json() calls
    calls,        \* per request: number of fetchFn calls
    backoffs,     \* per request: number of backoff waits started
    aborts,       \* per request: number of attempts ended by the timeout
    looked,       \* per request: outcome of the cache lookup
    wrote,        \* per request: outcome of the cache write
    routed,       \* per inbound request: the cocFetch call its route handler builds
    tags,         \* a raw tag, encodeTag of it, and encodeTag of that
    delays        \* the backoff delays of the successive failed attempts

vars == <<variant, redis, fetchRetries, now, cache, pc, method, cacheKey,
          attempt, lastErr, response, timer, result, sends, calls, backoffs,
          aborts, looked, wrote, routed, tags, delays>>

\* the pure functions of the repository (route handlers, encodeTag, the
\* backoff formula) are exercised by PureSpec in these variables, which the
\* steps of cocFetch leave alone
pureVars == <<routed, tags, delays>>

cfgVars == <<variant, redis, fetchRetries, pureVars>>

\* ---------------------------------------------------------------- values
NoErr == "none"
NoResp == [status |-> 0, text |-> "none"]
NoTimer == [kind |-> "none", ms |-> 0]
NoEntry == [status |-> 0, body |-> [kind |-> "none", val |-> ""], expiresAt |-> 0]
NoResult == [status |-> 0, body |-> [kind |-> "none", val |-> ""], from |-> "none"]

EmptyObject == [kind |-> "json", val |-> "{}"]

\* JSON.parse: the value a valid text denotes; only called on valid texts
ValidJson == {"{\"tag\":1}"}
JSONParse(text) == [kind |-> "json", val |-> "tag=1"]

Min(a, b) == IF a < b THEN a ELSE b
Max(a, b) == IF a > b THEN a ELSE b
RECURSIVE Pow2(_)
Pow2(n) == IF n = 0 THEN 1 ELSE 2 * Pow2(n - 1)

\* ------------------------------------------------ strings and the routes
COC_API == "https://api.clashofclans.com/v1"
TOKEN == "secret"                        \* process.env.COC_TOKEN
Undefined == "undefined"
NoBody == [null |-> TRUE, token |-> Undefined]   \* options.body = null

NoCall == [url |-> "", cacheKey |-> NoKey, method |-> "none",
           headers |-> [Accept |-> "none"], input |-> NoBody, body |-> Undefined]
NoTags == [raw |-> <<>>, out |-> <<>>, again |-> <<>>, set |-> FALSE]

\* a string from its characters
RECURSIVE Join(_)
Join(cs) == IF cs = <<>> THEN "" ELSE Head(cs) \o Join(Tail(cs))

\* raw.startsWith(prefix)
StartsWith(cs, prefix) ==
    Len(cs) >= Len(prefix) /\ SubSeq(cs, 1, Len(prefix)) = prefix

\* encodeURIComponent, on the characters of TagChars: letters and digits
\* stay, '#', '%' and ' ' are escaped
EscapeChar(c) ==
    IF c = "#" THEN <<"%", "2", "3">>
    ELSE IF c = "%" THEN <<"%", "2", "5">>
    ELSE IF c = " " THEN <<"%", "2", "0">>
    ELSE <<c>>

RECURSIVE EncodeURIComponent(_)
EncodeURIComponent(cs) ==
    IF cs = <<>> THEN <<>> ELSE EscapeChar(Head(cs)) \o EncodeURIComponent(Tail(cs))

\* encodeTag without its test for an already encoded tag
EncodeTagAlwaysEncodes(raw) ==
    IF raw = <<>> THEN <<>>
    ELSE EncodeURIComponent(IF StartsWith(raw, <<"#">>) THEN raw ELSE <<"#">> \o raw)

\* function encodeTag(raw)
EncodeTag(raw) ==
    IF raw = <<>> THEN <<>>
    ELSE IF StartsWith(raw, <<"%", "2", "3">>) THEN raw
    ELSE EncodeURIComponent(IF StartsWith(raw, <<"#">>) THEN raw ELSE <<"#">> \o raw)

\* the "k=v&k=v" of URLSearchParams.toString() for the allowed parameters
\* the query defines, in the order of `allowed`
RECURSIVE QsJoin(_, _)
QsJoin(query, allowed) ==
    IF allowed = <<>> THEN ""
    ELSE LET k == Head(allowed)
             rest == QsJoin(query, Tail(allowed))
         IN IF k \in DOMAIN query /\ query[k] # Undefined
            THEN k \o "=" \o query[k] \o (IF rest = "" THEN "" ELSE "&" \o rest)
            ELSE rest

\* function qsFrom(req, allowed)
QsFrom(query, allowed) ==
    LET str == QsJoin(query, allowed) IN IF str = "" THEN "" ELSE "?" \o str

\* req.originalUrl: the inbound path and the query string as the client sent it
OriginalUrl(inPath, query) == inPath \o QsFrom(query, <<"limit", "name">>)

\* the headers of every fetch of cocFetch (part_000 sends no User-Agent)
FetchHeaders ==
    IF variant = "server"
    THEN [Authorization |-> "Bearer " \o TOKEN, Accept |-> "application/json",
          UserAgent |-> "clash-proxy/1.0"]
    ELSE [Authorization |-> "Bearer " \o TOKEN, Accept |-> "application/json"]

\* JSON.stringify of a request body {token: ...}: an undefined property is
\* left out
JSONStringify(body) ==
    IF body.token = Undefined THEN "{}" ELSE "{\"token\":\"" \o body.token \o "\"}"

\* body: body ? JSON.stringify(body) : undefined
FetchBody(body) == IF ~body.null THEN JSONStringify(body) ELSE Undefined

\* what cocFetch(path, req, res, {method, body, cacheKey, allowedQueryParams})
\* asks of the upstream, and the key it caches under
CocFetchCall(path, query, m, body, key, allowed) ==
    [url |-> COC_API \o path \o QsFrom(query, allowed), cacheKey |-> key,
     method |-> m, headers |-> FetchHeaders, input |-> body,
     body |-> FetchBody(body)]

\* inputs of the route handlers
TagChars == {"#", "%", "2", "3", "a", "A"}
RawTags == UNION {[1..n -> TagChars] : n \in 0..MaxTagLen}
RouteTags == {<<"A">>, <<"#", "A">>, <<"%", "2", "3", "A">>, <<"a">>}
LocationIds == {"32000006", "32000007"}
QueryValues == {Undefined, "10", "20"}
Queries == [{"limit", "name"} -> QueryValues]
TokenBodies == {[null |-> FALSE, token |-> t] : t \in {Undefined, "x"}}  \* req.body
RankingParams == <<"limit", "after", "before">>
SearchParams == <<"name", "limit", "after", "before", "locationId", "minMembers",
                  "maxMembers", "warFrequency", "minClanPoints", "labelIds">>

\* ------------------------------------------------------ the /raw route
\* \w of a JavaScript regular expression
WordChars ==
    {"a", "b", "c", "d", "e", "f", "g", "h", "i", "j", "k", "l", "m", "n", "o", "p", "q", "r", "s", "t", "u", "v", "w", "x", "y", "z"}
    \cup {"A", "B", "C", "D", "E", "F", "G", "H", "I", "J", "K", "L", "M", "N", "O", "P", "Q", "R", "S", "T", "U", "V", "W", "X", "Y", "Z"}
    \cup {"0", "1", "2", "3", "4", "5", "6", "7", "8", "9", "_"}

\* function isValidSafePath(p): /^[\w\-\/%\.]+$/.test(p)
IsValidSafePath(p) ==
    p # <<>> /\ \A n \in DOMAIN p : p[n] \in WordChars \cup {"-", "/", "%", "."}

\* RAW_WHITELIST, by default "/locations,/leagues,/labels"; part_000 has no
\* whitelist
RAW_WHITELIST ==
    IF variant = "server"
    THEN <<<<"/", "l", "o", "c", "a", "t", "i", "o", "n", "s">>,
           <<"/", "l", "e", "a", "g", "u", "e", "s">>,
           <<"/", "l", "a", "b", "e", "l", "s">>>>
    ELSE <<>>

\* RAW_WHITELIST.some(prefix => rawPath.startsWith(prefix))
Whitelisted(p) == \E n \in DOMAIN RAW_WHITELIST : StartsWith(p, RAW_WHITELIST[n])

\* req.path.replace(/^\/raw/, "") of the requests to /raw/*: a first segment
\* and up to MaxSuffixLen more characters
RawSegments ==
    {<<"/">>, <<"/", "l", "o", "c", "a", "t", "i", "o", "n", "s">>,
     <<"/", "l", "o", "c", "a", "t", "i", "o", "n">>, <<"/", "l", "e", "a", "g", "u", "e", "s">>,
     <<"/", "l", "a", "b", "e", "l", "s">>, <<"/", "c", "l", "a", "n", "s">>}
RawPaths ==
    {seg \o suf : seg \in RawSegments,
                  suf \in UNION {[1..n -> {"/", "s", ".", "~", "+", "%"}] : n \in 0..MaxSuffixLen}}

NoAnswer == [status |-> 0, error |-> ""]

\* the handler answers by itself, res.status(st).json({ error: msg }), and
\* cocFetch is not called
RawRejected(p, st, msg) ==
    [url |-> "", cacheKey |-> NoKey, method |-> "none",
     headers |-> [Accept |-> "none"], input |-> NoBody, body |-> Undefined,
     rawPath |-> p, answer |-> [status |-> st, error |-> msg]]

\* return cocFetch(rawPath, req, res, { cacheKey: `raw:${rawPath}:${req.originalUrl}` })
RawForwarded(p) ==
    [rawPath |-> p, answer |-> NoAnswer] @@
    CocFetchCall(Join(p), [k \in {} |-> ""], "GET", NoBody,
                 "raw:" \o Join(p) \o ":" \o OriginalUrl("/raw" \o Join(p), [k \in {} |-> ""]),
                 <<>>)

\* mutant: the handler of part_000, with no whitelist test, in both variants
RawOutcomeNoWhitelist(p) ==
    IF ~IsValidSafePath(p) THEN RawRejected(p, 400, "Invalid path")
    ELSE RawForwarded(p)

\* the body of the handler of /raw/* for rawPath p
RawOutcome(p) ==
    IF ~IsValidSafePath(p) THEN RawRejected(p, 400, "Invalid path")
    ELSE IF Len(RAW_WHITELIST) > 0 /\ ~Whitelisted(p)
    THEN RawRejected(p, 403, "raw proxy not allowed for this path (whitelist)")
    ELSE RawForwarded(p)

\* ------------------------------------------------------ pure helpers
\* mutant: the method test of shouldCache is forgotten
ShouldCacheAnyMethod(m, k) == k # NoKey

\* const shouldCache = method === "GET" && cacheKey
ShouldCache(m, k) == m = "GET" /\ k # NoKey

\* for (let attempt = 1; ...) in server.js, for (let attempt = 0; ...) in part_000
FirstAttempt == IF variant = "server" THEN 1 ELSE 0

\* attempt <= maxAttempts in server.js, attempt < 2 in part_000
LoopContinues(a) ==
    IF variant = "server" THEN a <= fetchRetries ELSE a < DefaultAttempts

\* the number of attempts the loop allows
MaxAttempts == IF variant = "server" THEN fetchRetries ELSE DefaultAttempts

\* baseTimeout * attempt
TimeoutMs(a) == BaseTimeout * a

\* mutant: the backoff of server.js without its ceiling
BackoffUncapped(a) ==
    IF variant = "server" THEN BackoffUnit * Pow2(a)
    ELSE BackoffUnit * (a + 1)

\* Math.min(2000, 200 * Math.pow(2, attempt)) in server.js,
\* 200 * (attempt + 1) in part_000
Backoff(a) ==
    IF variant = "server" THEN Min(BackoffCap, BackoffUnit * Pow2(a))
    ELSE BackoffUnit * (a + 1)

\* the timer fetchWithTimeout arms for an attempt (part_000 calls fetchFn bare)
AttemptTimer(a) ==
    IF variant = "server" THEN [kind |-> "timeout", ms |-> TimeoutMs(a)]
    ELSE NoTimer

\* parsed = text ? JSON.parse(text) : {}   catch { parsed = { raw: text } }
ParseBody(text) ==
    IF text = "" THEN EmptyObject
    ELSE IF text \in ValidJson THEN JSONParse(text)
    ELSE [kind |-> "raw", val |-> text]

\* { error: err.message || String(err) }
ErrorBody(msg) == [kind |-> "error", val |-> msg]

\* mutant: expiry is noticed one second late
ExpiredLate(e) == e.expiresAt + 1 < now

\* an entry is expired once its expiry time is in the past
Expired(e) == e.expiresAt < now

\* getCache(key): the stored value, or null
GetCache(k) ==
    IF k = NoKey \/ cache[k] = NoEntry \/ Expired(cache[k]) THEN NoEntry
    ELSE cache[k]

\* mutant: a lookup that finds an entry restarts its TTL
CacheAfterGetTouches(k) ==
    IF k # NoKey /\ cache[k] # NoEntry
    THEN IF Expired(cache[k]) THEN [cache EXCEPT ![k] = NoEntry]
         ELSE [cache EXCEPT ![k].expiresAt = now + CACHE_TTL]
    ELSE cache

\* a lookup of an expired key deletes it
CacheAfterGet(k) ==
    IF k # NoKey /\ cache[k] # NoEntry /\ Expired(cache[k])
    THEN [cache EXCEPT ![k] = NoEntry] ELSE cache

\* nodeCache.set(key, value, ttlSec) / redis.set(key, ..., "EX", Math.max(1, ttlSec))
StoreTtl == IF redis THEN Max(1, CACHE_TTL) ELSE CACHE_TTL

\* mutant: the store keeps one slot for all keys
SetCacheSharedSlot(k, st, body) ==
    [kk \in Keys |-> [status |-> st, body |-> body, expiresAt |-> now + StoreTtl]]

\* setCache(cacheKey, { status: response.status, body: parsed }, CACHE_TTL)
SetCache(k, st, body) ==
    [cache EXCEPT ![k] = [status |-> st, body |-> body, expiresAt |-> now + StoreTtl]]

\* ------------------------------------------------------ steps of cocFetch
\* res.status(st).json(body): the request is answered and cocFetch returns
Finish(r, st, body, from) ==
    /\ result' = [result EXCEPT ![r] = [status |-> st, body |-> body, from |-> from]]
    /\ sends' = [sends EXCEPT ![r] = @ + 1]
    /\ pc' = [pc EXCEPT ![r] = "done"]
    /\ timer' = [timer EXCEPT ![r] = NoTimer]

\* cocFetch awaits: the request is suspended at `where` with timer tm pending
Suspend(r, where, tm) ==
    /\ pc' = [pc EXCEPT ![r] = where]
    /\ timer' = [timer EXCEPT ![r] = tm]
    /\ UNCHANGED <<result, sends>>

\* mutant: the error is thrown on instead of being answered
CatchErrorRethrows(r, msg) ==
    /\ pc' = [pc EXCEPT ![r] = "done"]
    /\ timer' = [timer EXCEPT ![r] = NoTimer]
    /\ UNCHANGED <<result, sends>>

\* catch (err) { return res.status(500).json({ error: err.message }) }
CatchError(r, msg) == Finish(r, 500, ErrorBody(msg), "catch")

\* the head of the retry loop with loop variable a and lastErr err: either the
\* next fetch is issued, or the loop is over without a response and
\* `throw lastErr || new Error(...)` lands in the catch block
EnterLoop(r, a, err) ==
    /\ attempt' = [attempt EXCEPT ![r] = a]
    /\ IF LoopContinues(a)
       THEN /\ calls' = [calls EXCEPT ![r] = @ + 1]
            /\ Suspend(r, "fetch", AttemptTimer(a))
       ELSE /\ UNCHANGED calls
            /\ CatchError(r, IF err # NoErr THEN err ELSE NoResponseMessage)

\* mutant: the result of the lookup is ignored and the upstream is called
AfterLookupAlwaysFetches(r, e) ==
    /\ looked' = [looked EXCEPT ![r] = IF e # NoEntry THEN "hit" ELSE "miss"]
    /\ EnterLoop(r, FirstAttempt, NoErr)

\* the outcome of the cache lookup e: a hit is answered at once, a miss
\* enters the retry loop
AfterLookup(r, e) ==
    IF e # NoEntry
    THEN /\ looked' = [looked EXCEPT ![r] = "hit"]
         /\ Finish(r, e.status, e.body, "cache")
         /\ UNCHANGED <<attempt, calls>>
    ELSE /\ looked' = [looked EXCEPT ![r] = "miss"]
         /\ EnterLoop(r, FirstAttempt, NoErr)

\* ---------------------------------------------------------------- Init
Init ==
    /\ variant \in Variants
    /\ redis \in (IF variant = "server" THEN BOOLEAN ELSE {FALSE})
    /\ fetchRetries \in (IF variant = "server" THEN 1..MaxRetries ELSE {DefaultAttempts})
    /\ now = 0
    /\ cache = [k \in Keys |-> NoEntry]
    /\ pc = [r \in Requests |-> "idle"]
    /\ method = [r \in Requests |-> "GET"]
    /\ cacheKey = [r \in Requests |-> NoKey]
    /\ attempt = [r \in Requests |-> 0]
    /\ lastErr = [r \in Requests |-> NoErr]
    /\ response = [r \in Requests |-> NoResp]
    /\ timer = [r \in Requests |-> NoTimer]
    /\ result = [r \in Requests |-> NoResult]
    /\ sends = [r \in Requests |-> 0]
    /\ calls = [r \in Requests |-> 0]
    /\ backoffs = [r \in Requests |-> 0]
    /\ aborts = [r \in Requests |-> 0]
    /\ looked = [r \in Requests |-> "none"]
    /\ wrote = [r \in Requests |-> "none"]
    /\ routed = [i \in 1..NCalls |-> NoCall]
    /\ tags = NoTags
    /\ delays = <<>>

\* -------------------------------------------------------------- actions
\* a route handler calls cocFetch(path, req, res, {method, cacheKey}); with
\* NodeCache the lookup completes within the call, with Redis it is awaited.
\* Requests arrive in the order of their numbers, and the keys being
\* interchangeable, the key "leagues" is used only after "clan:%23A".
CocFetch(r, m, k) ==
    /\ pc[r] = "idle"
    /\ \A q \in Requests : q < r => pc[q] # "idle"
    /\ k = "leagues" => \E q \in Requests : q < r /\ cacheKey[q] = "clan:%23A"
    /\ method' = [method EXCEPT ![r] = m]
    /\ cacheKey' = [cacheKey EXCEPT ![r] = k]
    /\ IF ShouldCache(m, k)
       THEN IF redis
            THEN /\ Suspend(r, "getCache", NoTimer)
                 /\ UNCHANGED <<cache, looked, attempt, calls>>
            ELSE /\ cache' = CacheAfterGet(k)
                 /\ AfterLookup(r, GetCache(k))
       ELSE /\ EnterLoop(r, FirstAttempt, NoErr)
            /\ UNCHANGED <<cache, looked>>
    /\ UNCHANGED <<cfgVars, now, lastErr, response, backoffs, aborts, wrote>>

\* await redis.get(key) resolves
RedisGetReply(r) ==
    /\ pc[r] = "getCache"
    /\ cache' = CacheAfterGet(cacheKey[r])
    /\ AfterLookup(r, GetCache(cacheKey[r]))
    /\ UNCHANGED <<cfgVars, now, method, cacheKey, lastErr, response, backoffs,
                   aborts, wrote>>

\* await redis.get(key) rejects: getCache has no handler, cocFetch catches
RedisGetError(r, msg) ==
    /\ pc[r] = "getCache"
    /\ looked' = [looked EXCEPT ![r] = "error"]
    /\ CatchError(r, msg)
    /\ UNCHANGED <<cfgVars, now, cache, method, cacheKey, attempt, lastErr,
                   response, calls, backoffs, aborts, wrote>>

\* mutant: fetchWithTimeout returns the response without clearTimeout(id)
FetchRespondsKeepsTimer(r, st, text) ==
    /\ pc[r] = "fetch"
    /\ response' = [response EXCEPT ![r] = [status |-> st, text |-> text]]
    /\ Suspend(r, "text", timer[r])
    /\ UNCHANGED <<cfgVars, now, cache, method, cacheKey, attempt, lastErr,
                   calls, backoffs, aborts, looked, wrote>>

\* fetchFn resolves with an HTTP response of any status: clearTimeout, break,
\* then await response.text()
FetchResponds(r, st, text) ==
    /\ pc[r] = "fetch"
    /\ response' = [response EXCEPT ![r] = [status |-> st, text |-> text]]
    /\ Suspend(r, "text", NoTimer)
    /\ UNCHANGED <<cfgVars, now, cache, method, cacheKey, attempt, lastErr,
                   calls, backoffs, aborts, looked, wrote>>

\* mutant: the failure of the last attempt is answered without a backoff wait
AttemptFailedSkipsLastWait(r, msg) ==
    /\ lastErr' = [lastErr EXCEPT ![r] = msg]
    /\ IF LoopContinues(attempt[r] + 1)
       THEN /\ backoffs' = [backoffs EXCEPT ![r] = @ + 1]
            /\ Suspend(r, "backoff", [kind |-> "backoff", ms |-> Backoff(attempt[r])])
       ELSE /\ UNCHANGED backoffs
            /\ CatchError(r, msg)

\* mutant: the catch block keeps the first error (lastErr = lastErr || err)
AttemptFailedKeepsFirst(r, msg) ==
    /\ lastErr' = [lastErr EXCEPT ![r] = IF @ # NoErr THEN @ ELSE msg]
    /\ backoffs' = [backoffs EXCEPT ![r] = @ + 1]
    /\ Suspend(r, "backoff", [kind |-> "backoff", ms |-> Backoff(attempt[r])])

\* the catch block of the retry loop: lastErr = err, then the backoff wait
AttemptFailed(r, msg) ==
    /\ lastErr' = [lastErr EXCEPT ![r] = msg]
    /\ backoffs' = [backoffs EXCEPT ![r] = @ + 1]
    /\ Suspend(r, "backoff", [kind |-> "backoff", ms |-> Backoff(attempt[r])])

\* fetchFn rejects with a transport error
FetchRejects(r, msg) ==
    /\ pc[r] = "fetch"
    /\ AttemptFailed(r, msg)
    /\ UNCHANGED <<cfgVars, now, cache, method, cacheKey, attempt, response,
                   calls, aborts, looked, wrote>>

\* the per-attempt timer fires: controller.abort() makes fetchFn reject
TimeoutFires(r) ==
    /\ pc[r] = "fetch"
    /\ timer[r].kind = "timeout"
    /\ aborts' = [aborts EXCEPT ![r] = @ + 1]
    /\ AttemptFailed(r, AbortMessage)
    /\ UNCHANGED <<cfgVars, now, cache, method, cacheKey, attempt, response,
                   calls, looked, wrote>>

\* the backoff timer fires: attempt++ and the loop condition is tested
BackoffElapsed(r) ==
    /\ pc[r] = "backoff"
    /\ EnterLoop(r, attempt[r] + 1, lastErr[r])
    /\ UNCHANGED <<cfgVars, now, cache, method, cacheKey, lastErr, response,
                   backoffs, aborts, looked, wrote>>

\* await response.text() resolves: parse, write the cache, answer
TextResolves(r) ==
    /\ pc[r] = "text"
    /\ LET parsed == ParseBody(response[r].text) IN
       IF ShouldCache(method[r], cacheKey[r])
       THEN IF redis
            THEN /\ Suspend(r, "setCache", NoTimer)
                 /\ UNCHANGED <<cache, wrote>>
            ELSE /\ cache' = SetCache(cacheKey[r], response[r].status, parsed)
                 /\ wrote' = [wrote EXCEPT ![r] = "ok"]
                 /\ Finish(r, response[r].status, parsed, "upstream")
       ELSE /\ Finish(r, response[r].status, parsed, "upstream")
            /\ UNCHANGED <<cache, wrote>>
    /\ UNCHANGED <<cfgVars, now, method, cacheKey, attempt, lastErr, response,
                   calls, backoffs, aborts, looked>>

\* await response.text() rejects (the body stream breaks)
TextRejects(r, msg) ==
    /\ pc[r] = "text"
    /\ CatchError(r, msg)
    /\ UNCHANGED <<cfgVars, now, cache, method, cacheKey, attempt, lastErr,
                   response, calls, backoffs, aborts, looked, wrote>>

\* await redis.set(...) resolves
RedisSetReply(r) ==
    /\ pc[r] = "setCache"
    /\ cache' = SetCache(cacheKey[r], response[r].status, ParseBody(response[r].text))
    /\ wrote' = [wrote EXCEPT ![r] = "ok"]
    /\ Finish(r, response[r].status, ParseBody(response[r].text), "upstream")
    /\ UNCHANGED <<cfgVars, now, method, cacheKey, attempt, lastErr, response,
                   calls, backoffs, aborts, looked>>

\* await redis.set(...) rejects: setCache has no handler, cocFetch catches
RedisSetError(r, msg) ==
    /\ pc[r] = "setCache"
    /\ wrote' = [wrote EXCEPT ![r] = "error"]
    /\ CatchError(r, msg)
    /\ UNCHANGED <<cfgVars, now, cache, method, cacheKey, attempt, lastErr,
                   response, calls, backoffs, aborts, looked>>

\* the wall clock advances by one second
Tick ==
    /\ now < MaxTime
    /\ now' = now + 1
    /\ UNCHANGED <<cfgVars, cache, pc, method, cacheKey, attempt, lastErr,
                   response, timer, result, sends, calls, backoffs, aborts,
                   looked, wrote>>

\* the checkperiod timer of NodeCache deletes the expired entries
CheckData ==
    /\ ~redis
    /\ \E k \in Keys : cache[k] # NoEntry /\ Expired(cache[k])
    /\ cache' = [k \in Keys |->
                    IF cache[k] # NoEntry /\ Expired(cache[k]) THEN NoEntry
                    ELSE cache[k]]
    /\ UNCHANGED <<cfgVars, now, pc, method, cacheKey, attempt, lastErr,
                   response, timer, result, sends, calls, backoffs, aborts,
                   looked, wrote>>

Next ==
    \/ \E r \in Requests, m \in Methods, k \in Keys \cup {NoKey} : CocFetch(r, m, k)
    \/ \E r \in Requests : RedisGetReply(r)
    \/ \E r \in Requests, msg \in RedisErrors : RedisGetError(r, msg)
    \/ \E r \in Requests, st \in Statuses, text \in Texts : FetchResponds(r, st, text)
    \/ \E r \in Requests, msg \in TransportErrors : FetchRejects(r, msg)
    \/ \E r \in Requests : TimeoutFires(r)
    \/ \E r \in Requests : BackoffElapsed(r)
    \/ \E r \in Requests : TextResolves(r)
    \/ \E r \in Requests, msg \in BodyErrors : TextRejects(r, msg)
    \/ \E r \in Requests : RedisSetReply(r)
    \/ \E r \in Requests, msg \in RedisErrors : RedisSetError(r, msg)
    \/ Tick
    \/ CheckData

Spec == Init /\ [][Next]_vars

\* ------------------------------------------- the route handlers (PureSpec)
\* the i-th inbound request is next, and only route handlers have run
RouteTurn(i) ==
    /\ routed[i] = NoCall
    /\ \A j \in 1..NCalls : j < i => routed[j] # NoCall
    /\ tags = NoTags /\ delays = <<>>

Routes(i, call) ==
    /\ RouteTurn(i)
    /\ routed' = [routed EXCEPT ![i] = call]
    /\ UNCHANGED <<variant, redis, fetchRetries, tags, delays, now, cache, pc,
                   method, cacheKey, attempt, lastErr, response, timer, result,
                   sends, calls, backoffs, aborts, looked, wrote>>

\* app.get("/clan/:tag")
RouteClan(i, tag) ==
    LET t == Join(EncodeTag(tag)) IN
    Routes(i, CocFetchCall("/clans/" \o t, [k \in {} |-> ""], "GET", NoBody,
                           "clan:" \o t, <<>>))

\* app.get("/locations/:locationId/rankings/clans")
RouteRankingsClans(i, id, query) ==
    Routes(i, CocFetchCall("/locations/" \o id \o "/rankings/clans", query, "GET",
                           NoBody, "location:" \o id \o ":rankings:clans",
                           RankingParams))

\* app.get("/search/clans")
RouteSearchClans(i, query) ==
    Routes(i, CocFetchCall("/clans", query, "GET", NoBody,
                           "search:clans:" \o OriginalUrl("/search/clans", query),
                           SearchParams))

\* app.post("/player/:tag/verifytoken")
RouteVerifyToken(i, tag, body) ==
    Routes(i, CocFetchCall("/players/" \o Join(EncodeTag(tag)) \o "/verifytoken",
                           [k \in {} |-> ""], "POST", body, NoKey, <<>>))

\* app.get("/leagues")
RouteLeagues(i) ==
    Routes(i, CocFetchCall("/leagues", [k \in {} |-> ""], "GET", NoBody,
                           "leagues", <<>>))

\* app.get("/raw/*")
RouteRaw(i, p) == Routes(i, RawOutcome(p))

\* const tag = encodeTag(req.params.tag), and encodeTag of the result
NormalizeTag(raw) ==
    /\ ~tags.set /\ delays = <<>>
    /\ \A i \in 1..NCalls : routed[i] = NoCall
    /\ tags' = [raw |-> raw, out |-> EncodeTag(raw),
                again |-> EncodeTag(EncodeTag(raw)), set |-> TRUE]
    /\ UNCHANGED <<variant, redis, fetchRetries, routed, delays, now, cache, pc,
                   method, cacheKey, attempt, lastErr, response, timer, result,
                   sends, calls, backoffs, aborts, looked, wrote>>

\* the retry loop with every attempt failing: the backoff delay computed in
\* the catch block of the next attempt
RetryWait ==
    /\ ~tags.set
    /\ \A i \in 1..NCalls : routed[i] = NoCall
    /\ LoopContinues(FirstAttempt + Len(delays))
    /\ delays' = Append(delays, Backoff(FirstAttempt + Len(delays)))
    /\ UNCHANGED <<variant, redis, fetchRetries, routed, tags, now, cache, pc,
                   method, cacheKey, attempt, lastErr, response, timer, result,
                   sends, calls, backoffs, aborts, looked, wrote>>

PureInit ==
    /\ variant \in Variants
    /\ redis = FALSE
    /\ fetchRetries \in (IF variant = "server" THEN 1..MaxBackoffAttempts
                         ELSE {DefaultAttempts})
    /\ now = 0
    /\ cache = [k \in Keys |-> NoEntry]
    /\ pc = [r \in Requests |-> "idle"]
    /\ method = [r \in Requests |-> "GET"]
    /\ cacheKey = [r \in Requests |-> NoKey]
    /\ attempt = [r \in Requests |-> 0]
    /\ lastErr = [r \in Requests |-> NoErr]
    /\ response = [r \in Requests |-> NoResp]
    /\ timer = [r \in Requests |-> NoTimer]
    /\ result = [r \in Requests |-> NoResult]
    /\ sends = [r \in Requests |-> 0]
    /\ calls = [r \in Requests |-> 0]
    /\ backoffs = [r \in Requests |-> 0]
    /\ aborts = [r \in Requests |-> 0]
    /\ looked = [r \in Requests |-> "none"]
    /\ wrote = [r \in Requests |-> "none"]
    /\ routed = [i \in 1..NCalls |-> NoCall]
    /\ tags = NoTags
    /\ delays = <<>>

PureNext ==
    \/ \E i \in 1..NCalls, tag \in RouteTags : RouteClan(i, tag)
    \/ \E i \in 1..NCalls, id \in LocationIds, query \in Queries :
          RouteRankingsClans(i, id, query)
    \/ \E i \in 1..NCalls, query \in Queries : RouteSearchClans(i, query)
    \/ \E i \in 1..NCalls, tag \in RouteTags, body \in TokenBodies :
          RouteVerifyToken(i, tag, body)
    \/ \E i \in 1..NCalls : RouteLeagues(i)
    \/ \E i \in 1..NCalls, p \in RawPaths : RouteRaw(i, p)
    \/ \E raw \in RawTags : NormalizeTag(raw)
    \/ RetryWait

PureSpec == PureInit /\ [][PureNext]_vars

TypeOK ==
    /\ variant \in Variants
    /\ redis \in BOOLEAN
    /\ now \in 0..MaxTime
    /\ \A r \in Requests :
        /\ pc[r] \in {"idle", "getCache", "fetch", "backoff", "text", "setCache", "done"}
        /\ sends[r] \in 0..2
        /\ calls[r] \in 0..(MaxRetries + 1)

\* ------------------------------------------------ vocabulary of the claims
\* request r takes a step
Acting(r) == pc'[r] # pc[r]

\* request r has been answered
Done(r) == pc[r] = "done"

\* the cache lookup of request r completes in this step and returns
LookupReturns(r) == looked[r] = "none" /\ looked'[r] \in {"hit", "miss"}

\* key k holds an entry whose expiry time has not passed
Unexpired(k) == cache[k] # NoEntry /\ now <= cache[k].expiresAt

\* request q, answered from upstream, is the only request that wrote key k
OnlyWriter(q, k) ==
    /\ Done(q) /\ result[q].from = "upstream"
    /\ cacheKey[q] = k /\ wrote[q] = "ok"
    /\ \A p \in Requests \ {q} : ~(cacheKey[p] = k /\ wrote[p] = "ok")

\* ---------------------------------------------------------------- C1
C1_LookupFirst ==
    \A r \in Requests :
        /\ (calls[r] > 0 /\ ShouldCache(method[r], cacheKey[r])) => looked[r] = "miss"
        /\ looked[r] = "hit" =>
              /\ Done(r) /\ result[r].from = "cache" /\ sends[r] = 1
              /\ calls[r] = 0 /\ backoffs[r] = 0

C1_HitStep ==
    \A r \in Requests :
        LET k == cacheKey'[r] IN
        (LookupReturns(r) /\ Unexpired(k)) =>
            /\ looked'[r] = "hit"
            /\ result'[r] = [status |-> cache[k].status, body |-> cache[k].body,
                             from |-> "cache"]
            /\ calls' = calls /\ backoffs' = backoffs
            /\ \A q \in Requests \ {r} :
                   OnlyWriter(q, k) =>
                       /\ result'[r].status = result[q].status
                       /\ result'[r].body = result[q].body

\* C1: a GET with a cache key looks the cache up before any upstream call; a
\* lookup that finds an unexpired entry is answered with exactly the stored
\* status and body, with no upstream attempt and no backoff wait; so a
\* request that finds the entry an earlier request stored from its upstream
\* answer gets that same status and body without an upstream call.
C1_CacheHitShortCircuits == [](C1_LookupFirst) /\ [][C1_HitStep]_vars

\* a second request was answered from the entry the first one stored, after
\* the clock advanced within the TTL
C1_Witness ==
    \E r, q \in Requests :
        /\ r # q /\ looked[r] = "hit" /\ Done(r) /\ calls[r] = 0
        /\ OnlyWriter(q, cacheKey[r])
        /\ result[r].status = result[q].status /\ result[r].body = result[q].body
        /\ now >= 1

\* ---------------------------------------------------------------- C2
\* C2: a non-2xx upstream response to a cacheable GET does not populate the
\* cache: every cache entry holds a status in 200..299, and the request
\* following a non-2xx answer calls the upstream again, so that no request is
\* answered from the cache with a non-2xx status.
C2_NoErrorCaching ==
    /\ \A k \in Keys : cache[k] # NoEntry => cache[k].status \in 200..299
    /\ \A r \in Requests :
          (Done(r) /\ result[r].from = "cache") => result[r].status \in 200..299

\* ---------------------------------------------------------------- C3
C3_PostState ==
    \A r \in Requests :
        (pc[r] # "idle" /\ method[r] = "POST") =>
            /\ looked[r] = "none" /\ wrote[r] = "none"
            /\ pc[r] \notin {"getCache", "setCache"}
            /\ calls[r] >= 1
            /\ Done(r) => result[r].from # "cache"

C3_PostStep ==
    \A r \in Requests : (Acting(r) /\ method'[r] = "POST") => cache' = cache

\* C3: a POST never reads and never writes the cache, even with a cache key:
\* no step of a POST changes the cache, a POST performs no lookup and no
\* write, and it always calls the upstream.
C3_PostBypassesCache == [](C3_PostState) /\ [][C3_PostStep]_vars

\* a POST carrying a cache key was answered from upstream while the cache
\* held an unexpired entry under that key, which it left as it was
C3_Witness ==
    \E r, q \in Requests :
        /\ r # q /\ method[r] = "POST" /\ cacheKey[r] # NoKey /\ Done(r)
        /\ result[r].from = "upstream" /\ calls[r] = 1
        /\ OnlyWriter(q, cacheKey[r]) /\ Unexpired(cacheKey[r])
        /\ cache[cacheKey[r]].status = result[q].status
        /\ result[r].status # result[q].status

\* ---------------------------------------------------------------- C4
\* reading the body of the response failed: no complete response was received
BodyReadFailed(r) == result[r].from = "catch" /\ result[r].body.val \in BodyErrors

\* the body the claims expect for an upstream body text: the parsed JSON, or
\* {raw: text}; for the empty text both {} and {raw: ""} are accepted
ExpectedBodies(text) ==
    IF text \in ValidJson THEN {JSONParse(text)}
    ELSE IF text = "" THEN {EmptyObject, [kind |-> "raw", val |-> ""]}
    ELSE {[kind |-> "raw", val |-> text]}

\* the answer of request r is the response the upstream gave it
Relayed(r) ==
    /\ result[r].status = response[r].status
    /\ result[r].body \in ExpectedBodies(response[r].text)

\* C4: whenever the upstream returned an HTTP response, the client response
\* has the upstream's status and the upstream's parsed body, or {raw: text}
\* when the body is not JSON: the status is never replaced, the body never
\* dropped.
C4_FaithfulForwarding ==
    \A r \in Requests :
        (Done(r) /\ response[r] # NoResp /\ ~BodyReadFailed(r)) => Relayed(r)

\* ---------------------------------------------------------------- C5
\* C5: when every attempt of a request ended by its per-attempt timeout, the
\* request is answered with status 504.
C5_TimeoutIs504 ==
    \A r \in Requests :
        (Done(r) /\ calls[r] >= 1 /\ aborts[r] = calls[r]) => result[r].status = 504

\* ---------------------------------------------------------------- C6
\* C6: with at most M attempts, a response on attempt N <= M after N-1
\* transport failures is the outcome returned; M failed attempts give status
\* 500; and no request makes more than M upstream attempts.
C6_RetryBound ==
    \A r \in Requests :
        /\ calls[r] <= MaxAttempts
        /\ (Done(r) /\ response[r] # NoResp /\ ~BodyReadFailed(r)
              /\ backoffs[r] = calls[r] - 1) => Relayed(r)
        /\ (Done(r) /\ calls[r] = MaxAttempts /\ backoffs[r] = MaxAttempts) =>
              (result[r].status = 500 /\ result[r].from = "catch")

\* ---------------------------------------------------------------- C7
C7_NoRetryState ==
    \A r \in Requests :
        (response[r] # NoResp) =>
            /\ pc[r] \in {"text", "setCache", "done"}
            /\ backoffs[r] = calls[r] - 1
            /\ (Done(r) /\ ~BodyReadFailed(r)) => Relayed(r)

C7_NoRetryStep ==
    \A r \in Requests :
        (response[r] # NoResp) =>
            /\ calls'[r] = calls[r] /\ backoffs'[r] = backoffs[r]
            /\ response'[r] = response[r]

\* C7: an upstream HTTP response, of whatever status, is never retried: once
\* an attempt has yielded a response the request makes no further attempt and
\* no backoff wait, and that response is the one relayed.
C7_ResponseNotRetried == [](C7_NoRetryState) /\ [][C7_NoRetryStep]_vars

\* ---------------------------------------------------------------- C8
C8_LookupStep ==
    \A r \in Requests :
        LET k == cacheKey'[r] IN
        LookupReturns(r) =>
            /\ (cache[k] # NoEntry /\ now < cache[k].expiresAt) =>
                  /\ looked'[r] = "hit"
                  /\ result'[r].status = cache[k].status
                  /\ result'[r].body = cache[k].body
                  /\ calls'[r] = 0
            /\ (cache[k] = NoEntry \/ now > cache[k].expiresAt) =>
                  /\ looked'[r] = "miss"
                  /\ cache'[k] = NoEntry
                  /\ result'[r] = NoResult
                  /\ calls'[r] = 1 /\ pc'[r] = "fetch"

C8_StoreStep ==
    /\ \A r \in Requests :
          (wrote[r] = "none" /\ wrote'[r] = "ok") =>
              cache'[cacheKey[r]].expiresAt = now + CACHE_TTL
    /\ \A k \in Keys :
          /\ (cache[k] # NoEntry /\ now <= cache[k].expiresAt) => cache'[k] # NoEntry
          /\ (cache'[k] # cache[k] /\ cache'[k] # NoEntry) =>
                \E r \in Requests :
                    cacheKey[r] = k /\ wrote[r] = "none" /\ wrote'[r] = "ok"

\* C8: a value stored with TTL t stays under its key, unless overwritten,
\* until t has elapsed, and a lookup before that returns it; a lookup after
\* t has elapsed returns absent and leaves the request and the store as a
\* lookup of a never-written key does, so the request calls the upstream.
C8_CacheExpiry == [][C8_LookupStep /\ C8_StoreStep]_vars

\* with Redis: one request stored an entry, it expired, and the lookup of a
\* later request for the same key missed, removed it and called the upstream
C8_Witness ==
    \E r, q \in Requests :
        /\ r # q /\ redis /\ cacheKey[r] = cacheKey[q] /\ cacheKey[r] # NoKey
        /\ wrote[q] = "ok" /\ wrote[r] = "none" /\ Done(q)
        /\ cache[cacheKey[r]] = NoEntry
        /\ looked[r] = "miss" /\ calls[r] = 1 /\ pc[r] = "fetch"
        /\ \A p \in Requests \ {q} : wrote[p] # "ok"

\* ---------------------------------------------------------------- C9
\* C9: a request whose Redis lookup or write failed is handled as a cache
\* miss: the upstream is called and the client receives the upstream's
\* outcome, not an error caused by the cache failure.
C9_StoreFailureIsMiss ==
    \A r \in Requests :
        (Done(r) /\ (looked[r] = "error" \/ wrote[r] = "error")) =>
            /\ calls[r] >= 1
            /\ result[r].from # "catch" \/ result[r].body.val \notin RedisErrors

\* ---------------------------------------------------------------- C10
C10_State ==
    \A r \in Requests :
        /\ sends[r] <= 1
        /\ pc[r] \in {"idle", "getCache", "fetch", "backoff", "text", "setCache", "done"}
        /\ Done(r) <=> sends[r] = 1
        /\ Done(r) <=> result[r] # NoResult
        /\ Done(r) => result[r].status \in 100..599
        /\ (looked[r] = "error" \/ wrote[r] = "error") =>
              (Done(r) /\ result[r].status = 500 /\ result[r].body.kind = "error")

C10_Step ==
    \A r \in Requests :
        /\ result[r] # NoResult => result'[r] = result[r]
        /\ (Acting(r) /\ pc'[r] = "done") => sends'[r] = sends[r] + 1
        /\ (Acting(r) /\ pc'[r] # "done") => sends'[r] = sends[r]
        /\ (pc[r] = "backoff" /\ pc'[r] = "done") =>
              /\ sends'[r] = 1
              /\ result'[r] = [status |-> 500, body |-> ErrorBody(lastErr[r]),
                               from |-> "catch"]

\* C10: every request gets exactly one response, a single (status, body)
\* pair: cocFetch never answers twice, an answer once sent is not changed,
\* and every failure (cache error, transport error, timeout, body-read
\* error) ends in an answer instead of leaving cocFetch as an exception.
C10_ExactlyOneResponse == [](C10_State) /\ [][C10_Step]_vars

\* both requests were answered after failures of different kinds: one after
\* its attempts were exhausted, the other after a body-read error
C10_Witness ==
    \E r, q \in Requests :
        /\ r # q /\ Done(r) /\ Done(q) /\ sends[r] = 1 /\ sends[q] = 1
        /\ result[r].from = "catch" /\ calls[r] = MaxAttempts
        /\ backoffs[r] = MaxAttempts /\ aborts[r] >= 1
        /\ result[q].from = "catch" /\ result[q].body.val \in BodyErrors

\* ---------------------------------------------------------------- C11
\* what the event loop guarantees: a pending timer fires, and an awaited body
\* read or Redis command ends, one way or the other. Nothing is assumed of
\* the upstream: a fetch may stay pending for ever.
Fairness ==
    \A r \in Requests :
        /\ WF_vars(TimeoutFires(r))
        /\ WF_vars(BackoffElapsed(r))
        /\ WF_vars(TextResolves(r) \/ \E msg \in BodyErrors : TextRejects(r, msg))
        /\ WF_vars(RedisGetReply(r) \/ \E msg \in RedisErrors : RedisGetError(r, msg))
        /\ WF_vars(RedisSetReply(r) \/ \E msg \in RedisErrors : RedisSetError(r, msg))

LiveSpec == Init /\ [][Next]_vars /\ Fairness

\* C11: every request that entered cocFetch is eventually answered, whatever
\* the upstream does: respond, fail at transport level, or never respond.
C11_EventuallyResponds ==
    \A r \in Requests : (pc[r] # "idle") ~> Done(r)

\* ---------------------------------------------------------------- C12
\* C12: two GET requests forwarded to different upstream URLs never use the
\* same cache key, so a cache hit returns what was fetched from the URL the
\* request itself would have called.
C12_KeyCoversUrl ==
    \A i, j \in 1..NCalls :
        (/\ routed[i].method = "GET" /\ routed[j].method = "GET"
         /\ routed[i].cacheKey # NoKey /\ routed[j].cacheKey # NoKey
         /\ routed[i].url # routed[j].url)
        => routed[i].cacheKey # routed[j].cacheKey

\* ---------------------------------------------------------------- C13
\* C13: when the upstream answered a GET carrying a cache key with a 2xx
\* response, the entry has been written to the cache by the time the client
\* response is sent.
C13_WriteThrough ==
    \A r \in Requests :
        (/\ Done(r) /\ method[r] = "GET" /\ cacheKey[r] # NoKey
         /\ response[r] # NoResp /\ response[r].status \in 200..299
         /\ ~BodyReadFailed(r))
        => wrote[r] = "ok"

\* ---------------------------------------------------------------- C14
\* a tag identifier: letters and digits only
IdChars == {"2", "3", "a", "A"}
IsIdentifier(cs) == cs # <<>> /\ \A i \in DOMAIN cs : cs[i] \in IdChars

\* the upper-case form of an identifier
Upper(cs) == [i \in DOMAIN cs |-> IF cs[i] = "a" THEN "A" ELSE cs[i]]

\* C14: the tag normalizer gives an identifier, its upper-case form, its
\* '#'-prefixed form and its '%23'-prefixed form the same output.
C14_CanonicalTag ==
    (tags.set /\ IsIdentifier(tags.raw)) =>
        /\ tags.out = EncodeTag(Upper(tags.raw))
        /\ tags.out = EncodeTag(<<"#">> \o Upper(tags.raw))
        /\ tags.out = EncodeTag(<<"%", "2", "3">> \o Upper(tags.raw))

\* ---------------------------------------------------------------- C15
\* C15: the tag normalizer applied to its own output gives that output
\* again, and the empty string normalizes to the empty string.
C15_Idempotent ==
    tags.set =>
        /\ tags.again = tags.out
        /\ tags.raw = <<>> => tags.out = <<>>

\* a tag holding a '%' that is not the start of "%23" was escaped, and
\* normalizing the escaped tag again left it as it was
C15_Witness ==
    /\ tags.set /\ tags.raw = <<"%", "2", "a">>
    /\ tags.out = <<"%", "2", "3", "%", "2", "5", "2", "a">>
    /\ tags.again = tags.out

\* ---------------------------------------------------------------- C16
\* C16: every upstream call carries Authorization: Bearer {token} and
\* Accept: application/json; when the request has a body it also carries
\* Content-Type: application/json and its body is the JSON serialization of
\* the request body.
C16_OutboundHeaders ==
    \A i \in 1..NCalls :
        routed[i].method # "none" =>
            /\ routed[i].headers.Authorization = "Bearer " \o TOKEN
            /\ routed[i].headers.Accept = "application/json"
            /\ ~routed[i].input.null =>
                  /\ routed[i].body = JSONStringify(routed[i].input)
                  /\ "ContentType" \in DOMAIN routed[i].headers
                  /\ routed[i].headers.ContentType = "application/json"

\* ---------------------------------------------------------------- C17
\* an attempt fails: the error kept is the error of this attempt, the abort
\* error when its timeout fired and a transport error otherwise
C17_FailStep ==
    \A r \in Requests :
        (pc[r] = "fetch" /\ pc'[r] = "backoff") =>
            IF aborts'[r] # aborts[r] THEN lastErr'[r] = AbortMessage
            ELSE lastErr'[r] \in TransportErrors

\* the error kept is not touched during the backoff wait
C17_KeepStep ==
    \A r \in Requests : pc[r] = "backoff" => lastErr'[r] = lastErr[r]

\* the attempts are used up: the answer is a 500 carrying the error kept
C17_ReportStep ==
    \A r \in Requests :
        (pc[r] = "backoff" /\ pc'[r] = "done") =>
            result'[r] = [status |-> 500,
                          body |-> [kind |-> "error", val |-> lastErr[r]],
                          from |-> "catch"]

\* C17: when every attempt failed and no response was obtained, the 500
\* response body carries the message of the error of the last attempt, not
\* of an earlier one.
C17_LastErrorReported == [][C17_FailStep /\ C17_KeepStep /\ C17_ReportStep]_vars

\* two attempts failed differently, one by its timeout and the last one by a
\* transport error, and the client was told the transport error
C17_Witness ==
    \E r \in Requests :
        /\ Done(r) /\ response[r] = NoResp
        /\ calls[r] = 2 /\ backoffs[r] = 2 /\ aborts[r] = 1
        /\ result[r].status = 500 /\ result[r].body.val = "ENOTFOUND"

\* ---------------------------------------------------------------- C18
\* C18: under any interleaving, each cache entry under key k is the status
\* and body of one complete upstream response obtained by a request for k
\* that wrote it: never a mix of two responses, never a response obtained
\* for another key.
C18_EntriesAreWhole ==
    \A k \in Keys :
        cache[k] # NoEntry =>
            \E r \in Requests :
                /\ cacheKey[r] = k /\ wrote[r] = "ok" /\ response[r] # NoResp
                /\ cache[k].status = response[r].status
                /\ cache[k].body \in ExpectedBodies(response[r].text)

\* two concurrent requests missed the same key, got different responses and
\* both wrote; the entry is the response of one of them and not the other's
C18_Witness ==
    \E r, q \in Requests :
        /\ r # q /\ cacheKey[r] = cacheKey[q] /\ cacheKey[r] # NoKey
        /\ now = 0 /\ looked[r] = "miss" /\ looked[q] = "miss"
        /\ wrote[r] = "ok" /\ wrote[q] = "ok"
        /\ response[r].status # response[q].status
        /\ response[r].text # response[q].text
        /\ cache[cacheKey[r]].status = response[q].status
        /\ cache[cacheKey[r]].body \in ExpectedBodies(response[q].text)

\* ---------------------------------------------------------------- C19
\* C19: a per-attempt timeout timer is pending only while its attempt is in
\* flight: it is cleared when the attempt ends by a response, a transport
\* error or an abort, and no timer is pending once the request has responded.
C19_TimerCleared ==
    \A r \in Requests :
        /\ timer[r].kind = "timeout" => pc[r] = "fetch"
        /\ Done(r) => timer[r] = NoTimer

\* a request whose first attempt was aborted by its timer and whose second
\* attempt got a response has answered, with no timer left
C19_Witness ==
    \E r \in Requests :
        /\ variant = "server" /\ Done(r) /\ calls[r] = 2 /\ aborts[r] = 1
        /\ response[r] # NoResp /\ timer[r] = NoTimer

\* ---------------------------------------------------------------- C20
\* C20: the backoff delays grow with the attempt number and never exceed
\* 2000 ms: an earlier delay is at most a later one, strictly less while it
\* is below the cap.
C20_BackoffGrows ==
    /\ \A i \in DOMAIN delays : delays[i] <= 2000
    /\ \A i, j \in DOMAIN delays :
          i < j => /\ delays[i] <= delays[j]
                   /\ delays[i] < 2000 => delays[i] < delays[j]

\* the delays doubled up to the cap and stayed there
C20_Witness ==
    /\ Len(delays) = 5
    /\ delays[1] = 400 /\ delays[3] = 1600 /\ delays[4] = 2000 /\ delays[5] = 2000

\* ---------------------------------------------------------------- C21
\* a hit is served from an entry that has not outlived its TTL, and leaves
\* the store, the entry's expiry included, as it was
C21_HitStep ==
    \A r \in Requests :
        (looked[r] = "none" /\ looked'[r] = "hit") =>
            /\ cache' = cache
            /\ now <= cache[cacheKey'[r]].expiresAt
            /\ result'[r].status = cache[cacheKey'[r]].status
            /\ result'[r].body = cache[cacheKey'[r]].body

\* an expiry is set only by the cache write of a request that missed and
\* fetched from the upstream, and it is the time of the write plus the TTL
C21_ExpiryStep ==
    \A k \in Keys :
        (cache'[k] # NoEntry /\ cache'[k].expiresAt # cache[k].expiresAt) =>
            /\ cache'[k].expiresAt = now + CACHE_TTL
            /\ \E r \in Requests :
                  /\ cacheKey[r] = k /\ wrote[r] = "none" /\ wrote'[r] = "ok"
                  /\ looked[r] = "miss" /\ calls[r] >= 1 /\ response[r] # NoResp

\* no entry expires later than one TTL from now
C21_State ==
    \A k \in Keys : cache[k] # NoEntry => cache[k].expiresAt <= now + CACHE_TTL

\* C21: a cache hit never extends an entry's expiry and only a cache write
\* after a fresh upstream fetch sets one, so a response served from the
\* cache is never older than the TTL counted from the write that stored it.
C21_BoundedStaleness == [](C21_State) /\ [][C21_HitStep /\ C21_ExpiryStep]_vars

\* an entry written at time 0 was served by a hit at the last moment of its
\* TTL, and still expires when it did before the hit
C21_Witness ==
    \E r, q \in Requests :
        /\ r # q /\ cacheKey[r] = cacheKey[q] /\ cacheKey[r] # NoKey
        /\ wrote[q] = "ok" /\ wrote[r] = "none"
        /\ looked[r] = "hit" /\ Done(r) /\ result[r].from = "cache"
        /\ now = CACHE_TTL /\ cache[cacheKey[r]].expiresAt = CACHE_TTL

\* ---------------------------------------------------------------- C22
\* the upstream attempts of request r that have failed: all its attempts but
\* the one in flight or the one that got the response
FailedAttempts(r) ==
    calls[r] - (IF pc[r] = "fetch" \/ response[r] # NoResp THEN 1 ELSE 0)

\* as many backoff waits were started as attempts failed, and a request
\* answered without a response after calling the upstream made every
\* attempt and waited after each
C22_State ==
    \A r \in Requests :
        /\ backoffs[r] = FailedAttempts(r)
        /\ (Done(r) /\ calls[r] >= 1 /\ response[r] = NoResp) =>
              /\ calls[r] = MaxAttempts /\ backoffs[r] = MaxAttempts
              /\ result[r].status = 500

\* an attempt ends in a response or in a backoff wait, never in an answer;
\* the answer after the last failure is sent when the wait has elapsed
C22_Step ==
    \A r \in Requests :
        /\ (pc[r] = "fetch" /\ Acting(r)) =>
              \/ pc'[r] = "text" /\ response'[r] # NoResp /\ backoffs'[r] = backoffs[r]
              \/ /\ pc'[r] = "backoff" /\ response'[r] = NoResp
                 /\ backoffs'[r] = backoffs[r] + 1
                 /\ timer'[r].kind = "backoff" /\ timer'[r].ms > 0
        /\ (pc[r] = "backoff" /\ Acting(r)) =>
              /\ backoffs'[r] = backoffs[r]
              /\ IF attempt[r] + 1 < FirstAttempt + MaxAttempts
                 THEN pc'[r] = "fetch" /\ calls'[r] = calls[r] + 1
                 ELSE pc'[r] = "done" /\ result'[r].status = 500

\* C22: in one request the number of backoff waits equals the number of
\* failed upstream attempts; a wait follows every failure, the last one
\* included, and the 500 after exhausted retries is sent once that wait has
\* elapsed.
C22_BackoffAfterEveryFailure == [](C22_State) /\ [][C22_Step]_vars

\* a request of part_000 had both its attempts rejected, waited twice and
\* was answered 500
C22_Witness ==
    \E r \in Requests :
        /\ variant = "part000" /\ Done(r) /\ response[r] = NoResp
        /\ calls[r] = 2 /\ backoffs[r] = 2 /\ aborts[r] = 0
        /\ result[r].status = 500 /\ result[r].body.val \in TransportErrors

\* ---------------------------------------------------------------- C23
\* the i-th request went to /raw/*
IsRaw(i) == "rawPath" \in DOMAIN routed[i]

\* the handler answered the i-th request with status st by itself: cocFetch
\* was not called, so no cache key was looked up or written and no upstream
\* URL was fetched
AnsweredWithout(i, st) ==
    /\ routed[i].answer.status = st
    /\ routed[i].method = "none" /\ routed[i].url = "" /\ routed[i].cacheKey = NoKey
    /\ \A k \in Keys : cache[k] = NoEntry
    /\ \A r \in Requests : calls[r] = 0 /\ looked[r] = "none" /\ wrote[r] = "none"

\* C23: a /raw request whose path fails the safe-character check is answered
\* 400, and one whose path matches no prefix of a non-empty whitelist is
\* answered 403; in both cases the cache is neither read nor written and the
\* upstream is not called.
C23_RawRejections ==
    \A i \in 1..NCalls :
        IsRaw(i) =>
            /\ ~IsValidSafePath(routed[i].rawPath) => AnsweredWithout(i, 400)
            /\ (/\ IsValidSafePath(routed[i].rawPath)
                /\ Len(RAW_WHITELIST) > 0
                /\ \A n \in DOMAIN RAW_WHITELIST :
                      ~StartsWith(routed[i].rawPath, RAW_WHITELIST[n]))
               => AnsweredWithout(i, 403)

\* one /raw request was refused for an unsafe character, another for a path
\* off the whitelist that differs from a whitelisted prefix by one letter
C23_Witness ==
    \E i, j \in 1..NCalls :
        /\ IsRaw(i) /\ IsRaw(j)
        /\ routed[i].rawPath = <<"/", "l", "e", "a", "g", "u", "e", "s", "~">>
        /\ routed[i].answer.status = 400
        /\ routed[j].rawPath = <<"/", "l", "o", "c", "a", "t", "i", "o", "n", "/">>
        /\ routed[j].answer.status = 403

====
